---- MODULE Spec2Model ----
(***************************************************************************)
(* Model of src/js/SparkMonitor.js: the SparkMonitor singleton that maps   *)
(* Spark listener events to notebook cells and owns the per-cell           *)
(* CellMonitor objects.  CellMonitor.js and CurrentCell.js are not part of *)
(* the sources at hand; they are modelled from the written specification   *)
(* (CommandMonitor, ActiveCommandTracker).                                 *)
(***************************************************************************)
EXTENDS Integers, Sequences, FiniteSets, TLC

\* ------------------------------------------------------------------ bounds
MaxExec == 2            \* executions scheduled in a session
MaxQueue == 1           \* executions waiting behind the running one
MaxMonitors == 2        \* CellMonitor objects constructed in a session
MaxRecords == 2         \* entries of this.data
MaxExecutors == 1       \* |numExecutors| reached by executor added/removed
MaxComms == 2           \* calls of startComm in a session

\* ------------------------------------------------------------ input domains
Cells == {1, 2}                     \* CodeCell objects of the notebook
null == 0                           \* no active cell
undefined == 0                      \* no CellMonitor under a key
JobIds == {0, 1}
StageIds == {0}
CoreCounts == {4}
ExecutorCounts == {1}
AppIds == {<<"a">>, <<"a", "_", "b">>}
AttemptIds == {<<"1">>, <<"b", "_", "1">>}
UUIDS == <<"u1", "u2">>             \* values uuidv4() hands out, in order
InitialCellId == <<"c1", "">>       \* cell 2 has no id until its first job

\* ------------------------------------------------------------------- state
VARIABLES
    cellId,             \* cell.id of every CodeCell
    queue,              \* CurrentCell: executions scheduled, not yet running
    activeCell,         \* CurrentCell.getActiveCell()
    numCellsExecuted,   \* CurrentCell.getNumCellsExecuted()
    cellReexecuted,     \* CurrentCell.getCellReexecuted()
    cellmonitors,       \* this.cellmonitors, in key order
    heap,               \* the CellMonitor objects constructed so far
    data,               \* this.data
    appId, appName, appAttemptId, app,
    totalCores, numExecutors,
    display_mode,
    cellExecCountSinceSparkJobStart,
    comm,               \* this.comm: the comm created last, null before
    commsOpen,          \* comms opened with onMsg bound to handleMessage
    readyWaits,         \* listener.ready().then callbacks of startComm, pending
    jobStartMonitor,    \* history: the monitor onSparkJobStart reached, per key
    leftover,           \* history: the monitor a re-run found, until its first job
    undisturbed,        \* history: no monitor retired by hand, never hidden
    recordApp           \* history: this.app when a key of this.data was first set

listenerVars == <<queue, activeCell, numCellsExecuted, cellReexecuted>>
engineVars == <<cellId, cellmonitors, heap, data, appId, appName, appAttemptId,
                app, totalCores, numExecutors, display_mode,
                cellExecCountSinceSparkJobStart>>
channelVars == <<comm, commsOpen, readyWaits>>
historyVars == <<jobStartMonitor, leftover, undisturbed>>
vars == <<listenerVars, engineVars, channelVars, historyVars, recordApp>>

\* ----------------------------------------------------------------- strings
\* Strings that take part in template literals are sequences of characters.
RECURSIVE NumberToString(_)
NumberToString(n) ==
    LET digit == <<"0", "1", "2", "3", "4", "5", "6", "7", "8", "9">>
    IN  IF n < 10 THEN <<digit[n + 1]>>
        ELSE NumberToString(n \div 10) \o <<digit[(n % 10) + 1]>>

AppInstance(id, attempt) == id \o <<"_">> \o attempt

\* The key of a job without the app instance in it.
JobKeyWithoutInstance(a, jobId) == <<"j", "o", "b">> \o NumberToString(jobId)

JobKey(a, jobId) == <<"a", "p", "p">> \o a \o <<"j", "o", "b">> \o NumberToString(jobId)

StageKey(a, stageId) ==
    <<"a", "p", "p">> \o a \o <<"s", "t", "a", "g", "e">> \o NumberToString(stageId)

\* ------------------------------------------------------------ small helpers
Put(f, k, v) == [x \in DOMAIN f \cup {k} |-> IF x = k THEN v ELSE f[x]]

Range(s) == {s[i] : i \in DOMAIN s}

Keys(cm) == {cm[i].id : i \in DOMAIN cm}

Live(cm) == {cm[i].mon : i \in DOMAIN cm}

IndexOf(cm, id) == CHOOSE i \in DOMAIN cm : cm[i].id = id

Remove(s, i) == [j \in 1..(Len(s) - 1) |-> IF j < i THEN s[j] ELSE s[j + 1]]

\* ---------------------------------------------------- the engine as a value
\* The fields a handler reads and writes, with what it has produced so far:
\* the calls on CellMonitor objects, the console lines, an uncaught exception.
World ==
    [cellId |-> cellId, cellmonitors |-> cellmonitors, heap |-> heap,
     data |-> data, appId |-> appId, appName |-> appName,
     appAttemptId |-> appAttemptId, app |-> app, totalCores |-> totalCores,
     numExecutors |-> numExecutors, display_mode |-> display_mode,
     cellExecCountSinceSparkJobStart |-> cellExecCountSinceSparkJobStart,
     calls |-> <<>>, log |-> <<>>, thrown |-> FALSE]

Call(w, op, m) == [w EXCEPT !.calls = Append(@, [op |-> op, mon |-> m])]

ConsoleError(w) == [w EXCEPT !.log = Append(@, "error")]

ConsoleWarn(w) == [w EXCEPT !.log = Append(@, "warn")]

\* Reading a property of undefined or null: the handler stops where it is.
TypeError(w) == [w EXCEPT !.thrown = TRUE]

\* ------------------------------------------------------------- CellMonitor
\* new CellMonitor(monitor, cell): no display yet.
NewCellMonitor(w, id) ==
    Call([w EXCEPT !.heap = Append(@, [cell |-> id, displayVisible |-> FALSE])],
         "new", Len(w.heap) + 1)

\* cellmonitor.removeDisplay()
removeDisplay(w, m) ==
    Call([w EXCEPT !.heap[m].displayVisible = FALSE], "removeDisplay", m)

\* cellmonitor.onSparkJobStart(data) puts up the display of the cell.
MonitorOnSparkJobStart(w, m) ==
    Call([w EXCEPT !.heap[m].displayVisible = TRUE], "onSparkJobStart", m)

\* The other events update the monitor's own counters only.
MonitorEvent(w, op, m) == Call(w, op, m)

Events == {"onSparkJobStart", "onSparkJobEnd", "onSparkStageSubmitted",
           "onSparkStageCompleted", "onSparkTaskStart", "onSparkTaskEnd",
           "onSparkExecutorAdded", "onSparkExecutorRemoved"}

\* ------------------------------------------------------ monitor lifecycle
getCellMonitor(w, id) ==
    IF id \in Keys(w.cellmonitors)
    THEN w.cellmonitors[IndexOf(w.cellmonitors, id)].mon
    ELSE undefined

\* stopCellMonitor without its delete: the entry stays behind.
StopWithoutDelete(w, id) ==
    IF getCellMonitor(w, id) # undefined
    THEN removeDisplay(w, getCellMonitor(w, id))
    ELSE w

stopCellMonitor(w, id) ==
    IF getCellMonitor(w, id) # undefined
    THEN LET w1 == removeDisplay(w, getCellMonitor(w, id))
         IN  [w1 EXCEPT !.cellmonitors = Remove(@, IndexOf(@, id))]
    ELSE w

cellExecutedAgain(w, id) == stopCellMonitor(w, id)

\* startCellMonitor without the removeDisplay of the monitor it replaces.
StartWithoutTeardown(w, id) ==
    LET w1 == IF getCellMonitor(w, id) # undefined
              THEN w
              ELSE IF cellReexecuted THEN cellExecutedAgain(w, id) ELSE w
        w2 == NewCellMonitor(w1, id)
        m == Len(w2.heap)
    IN  [w2 EXCEPT !.cellmonitors =
            IF id \in Keys(@)
            THEN [@ EXCEPT ![IndexOf(@, id)].mon = m]
            ELSE Append(@, [id |-> id, mon |-> m])]

startCellMonitor(w, id) ==
    LET w1 == IF getCellMonitor(w, id) # undefined
              THEN removeDisplay(w, getCellMonitor(w, id))
              ELSE IF cellReexecuted THEN cellExecutedAgain(w, id) ELSE w
        w2 == NewCellMonitor(w1, id)
        m == Len(w2.heap)
    IN  [w2 EXCEPT !.cellmonitors =
            IF id \in Keys(@)
            THEN [@ EXCEPT ![IndexOf(@, id)].mon = m]
            ELSE Append(@, [id |-> id, mon |-> m])]

\* ------------------------------------------------------------- visibility
\* showAll putting the displays of the registered monitors back up.
ShowAllRestoring(w) ==
    [w EXCEPT !.display_mode = "shown",
              !.heap = [m \in DOMAIN @ |->
                           IF m \in Live(w.cellmonitors)
                           THEN [@[m] EXCEPT !.displayVisible = TRUE]
                           ELSE @[m]]]

showAll(w) == [w EXCEPT !.display_mode = "shown"]

RECURSIVE HideFrom(_, _)
HideFrom(w, i) ==
    IF i > Len(w.cellmonitors) THEN w
    ELSE LET m == w.cellmonitors[i].mon
         IN  HideFrom(IF w.heap[m].displayVisible THEN removeDisplay(w, m) ELSE w,
                      i + 1)

\* hideAll retiring the monitors whose display it tears down.
HideAllRetiring(w) ==
    [HideFrom(w, 1) EXCEPT !.display_mode = "hidden", !.cellmonitors = <<>>]

hideAll(w) == [HideFrom(w, 1) EXCEPT !.display_mode = "hidden"]

toggleAll(w) ==
    IF w.display_mode = "hidden" THEN showAll(w)
    ELSE IF w.display_mode = "shown" THEN hideAll(w)
    ELSE w

\* --------------------------------------------------------- event handlers
\* uuidv4(): an id no cell carries yet.
uuidv4(w) == UUIDS[Cardinality({c \in Cells : w.cellId[c] \in Range(UUIDS)}) + 1]

\* onSparkJobStart deciding on a new run without moving the watermark.
JobStartKeepingWatermark(w, d) ==
    IF activeCell = null
    THEN TypeError(w)
    ELSE
    LET id == IF w.cellId[activeCell] = "" THEN uuidv4(w) ELSE w.cellId[activeCell]
        w1 == [w EXCEPT !.cellId[activeCell] = id]
        newExecution == numCellsExecuted > w1.cellExecCountSinceSparkJobStart
        start == w1.display_mode = "shown"
                     /\ (getCellMonitor(w1, id) = undefined \/ newExecution)
        w3 == IF start THEN startCellMonitor(w1, id) ELSE w1
        cellmonitor == getCellMonitor(w3, id)
        key == JobKey(w3.app, d.jobId)
        w4 == [w3 EXCEPT !.data = Put(@, key, [cell_id |-> id]),
                         !.totalCores = d.totalCores,
                         !.numExecutors = d.numExecutors]
    IN  IF cellmonitor # undefined
        THEN MonitorOnSparkJobStart(w4, cellmonitor)
        ELSE w4

\* onSparkJobStart without the test of display_mode.
JobStartIgnoringMode(w, d) ==
    IF activeCell = null
    THEN TypeError(w)
    ELSE
    LET id == IF w.cellId[activeCell] = "" THEN uuidv4(w) ELSE w.cellId[activeCell]
        w1 == [w EXCEPT !.cellId[activeCell] = id]
        newExecution == numCellsExecuted > w1.cellExecCountSinceSparkJobStart
        w2 == IF newExecution
              THEN [w1 EXCEPT !.cellExecCountSinceSparkJobStart = numCellsExecuted]
              ELSE w1
        start == getCellMonitor(w2, id) = undefined \/ newExecution
        w3 == IF start THEN startCellMonitor(w2, id) ELSE w2
        cellmonitor == getCellMonitor(w3, id)
        key == JobKey(w3.app, d.jobId)
        w4 == [w3 EXCEPT !.data = Put(@, key, [cell_id |-> id]),
                         !.totalCores = d.totalCores,
                         !.numExecutors = d.numExecutors]
    IN  IF cellmonitor # undefined
        THEN MonitorOnSparkJobStart(w4, cellmonitor)
        ELSE w4

onSparkJobStart(w, d) ==
    IF activeCell = null
    THEN TypeError(w)                       \* cell.id is read before the null test
    ELSE
    LET id == IF w.cellId[activeCell] = "" THEN uuidv4(w) ELSE w.cellId[activeCell]
        w1 == [w EXCEPT !.cellId[activeCell] = id]
        newExecution == numCellsExecuted > w1.cellExecCountSinceSparkJobStart
        w2 == IF newExecution
              THEN [w1 EXCEPT !.cellExecCountSinceSparkJobStart = numCellsExecuted]
              ELSE w1
        start == w2.display_mode = "shown"
                     /\ (getCellMonitor(w2, id) = undefined \/ newExecution)
        w3 == IF start THEN startCellMonitor(w2, id) ELSE w2
        cellmonitor == getCellMonitor(w3, id)
        key == JobKey(w3.app, d.jobId)
        w4 == [w3 EXCEPT !.data = Put(@, key, [cell_id |-> id]),
                         !.totalCores = d.totalCores,
                         !.numExecutors = d.numExecutors]
    IN  IF cellmonitor # undefined
        THEN MonitorOnSparkJobStart(w4, cellmonitor)
        ELSE w4

\* Forward resolving the cell through the listener instead of the record.
ForwardToActiveCell(w, key, op) ==
    IF key \notin DOMAIN w.data
    THEN TypeError(w)
    ELSE LET id == IF activeCell # null THEN w.cellId[activeCell]
                   ELSE w.data[key].cell_id
         IN  IF id # ""
             THEN IF getCellMonitor(w, id) # undefined
                  THEN MonitorEvent(w, op, getCellMonitor(w, id))
                  ELSE w
             ELSE ConsoleError(w)

\* The tail shared by the handlers that resolve a cell through this.data.
Forward(w, key, op) ==
    IF key \notin DOMAIN w.data
    THEN TypeError(w)                       \* this.data[key] is undefined
    ELSE LET id == w.data[key].cell_id
         IN  IF id # ""
             THEN IF getCellMonitor(w, id) # undefined
                  THEN MonitorEvent(w, op, getCellMonitor(w, id))
                  ELSE w
             ELSE ConsoleError(w)

onSparkJobEnd(w, d) == Forward(w, JobKey(w.app, d.jobId), "onSparkJobEnd")

\* onSparkStageSubmitted writing its record under the key of a job.
StageSubmittedUnderJobKey(w, d) ==
    IF activeCell = null
    THEN ConsoleError(w)
    ELSE LET id == w.cellId[activeCell]
             w1 == [w EXCEPT !.data = Put(@, JobKey(w.app, d.stageId),
                                          [cell_id |-> id])]
         IN  IF getCellMonitor(w1, id) # undefined
             THEN MonitorEvent(w1, "onSparkStageSubmitted", getCellMonitor(w1, id))
             ELSE w1

onSparkStageSubmitted(w, d) ==
    IF activeCell = null
    THEN ConsoleError(w)
    ELSE LET id == w.cellId[activeCell]
             w1 == [w EXCEPT !.data = Put(@, StageKey(w.app, d.stageId),
                                          [cell_id |-> id])]
         IN  IF getCellMonitor(w1, id) # undefined
             THEN MonitorEvent(w1, "onSparkStageSubmitted", getCellMonitor(w1, id))
             ELSE w1

onSparkStageCompleted(w, d) ==
    Forward(w, StageKey(w.app, d.stageId), "onSparkStageCompleted")

onSparkTaskStart(w, d) == Forward(w, StageKey(w.app, d.stageId), "onSparkTaskStart")

onSparkTaskEnd(w, d) == Forward(w, StageKey(w.app, d.stageId), "onSparkTaskEnd")

onSparkApplicationEnd(w, d) == w

onSparkApplicationStart(w, d) ==
    [w EXCEPT !.appId = d.appId, !.appName = d.appName,
              !.appAttemptId = d.appAttemptId,
              !.app = AppInstance(d.appId, d.appAttemptId)]

ExecutorTail(w, op) ==
    IF activeCell # null /\ getCellMonitor(w, w.cellId[activeCell]) # undefined
    THEN MonitorEvent(w, op, getCellMonitor(w, w.cellId[activeCell]))
    ELSE w

\* onSparkExecutorAdded doing its update only while a cell is active.
ExecutorAddedWhenActive(w, d) ==
    IF activeCell = null THEN w
    ELSE ExecutorTail([w EXCEPT !.totalCores = d.totalCores, !.numExecutors = @ + 1],
                      "onSparkExecutorAdded")

onSparkExecutorAdded(w, d) ==
    ExecutorTail([w EXCEPT !.totalCores = d.totalCores, !.numExecutors = @ + 1],
                 "onSparkExecutorAdded")

onSparkExecutorRemoved(w, d) ==
    ExecutorTail([w EXCEPT !.totalCores = d.totalCores, !.numExecutors = @ - 1],
                 "onSparkExecutorRemoved")

\* The switch of handleMessage and of a direct call alike.
Dispatch(w, d) ==
    CASE d.msgtype = "sparkJobStart" -> onSparkJobStart(w, d)
      [] d.msgtype = "sparkJobEnd" -> onSparkJobEnd(w, d)
      [] d.msgtype = "sparkStageSubmitted" -> onSparkStageSubmitted(w, d)
      [] d.msgtype = "sparkStageCompleted" -> onSparkStageCompleted(w, d)
      [] d.msgtype = "sparkTaskStart" -> onSparkTaskStart(w, d)
      [] d.msgtype = "sparkTaskEnd" -> onSparkTaskEnd(w, d)
      [] d.msgtype = "sparkApplicationStart" -> onSparkApplicationStart(w, d)
      [] d.msgtype = "sparkApplicationEnd" -> onSparkApplicationEnd(w, d)
      [] d.msgtype = "sparkExecutorAdded" -> onSparkExecutorAdded(w, d)
      [] d.msgtype = "sparkExecutorRemoved" -> onSparkExecutorRemoved(w, d)
      [] OTHER -> w

\* handleMessage without the return in hidden mode.
HandleMessageWhileHidden(w, msg) ==
    LET w1 == IF msg.msgtype = "" THEN ConsoleWarn(w) ELSE w
    IN  IF msg.msgtype = "fromscala" THEN Dispatch(w1, msg.data) ELSE w1

handleMessage(w, msg) ==
    IF w.display_mode = "hidden"
    THEN w
    ELSE LET w1 == IF msg.msgtype = "" THEN ConsoleWarn(w) ELSE w
         IN  IF msg.msgtype = "fromscala" THEN Dispatch(w1, msg.data) ELSE w1

\* The cells.changed listener without its call of stopCellMonitor.
RemovedDisplayOnly(w, id) ==
    IF getCellMonitor(w, id) # undefined
    THEN removeDisplay(w, getCellMonitor(w, id))
    ELSE w

\* The cells.changed listener of the constructor, for a removed cell.
onCellRemoved(w, id) ==
    IF getCellMonitor(w, id) # undefined
    THEN stopCellMonitor(removeDisplay(w, getCellMonitor(w, id)), id)
    ELSE w

\* ------------------------------------------------------------------ inputs
Payload(tag, jobId, stageId, cores, executors, id, attempt) ==
    [msgtype |-> tag, jobId |-> jobId, stageId |-> stageId, totalCores |-> cores,
     numExecutors |-> executors, appId |-> id, appName |-> "spark",
     appAttemptId |-> attempt]

JobStartData ==
    {Payload("sparkJobStart", j, 0, c, n, <<>>, <<>>) :
        j \in JobIds, c \in CoreCounts, n \in ExecutorCounts}

JobEndData == {Payload("sparkJobEnd", j, 0, 0, 0, <<>>, <<>>) : j \in JobIds}

StageData ==
    {Payload(tag, 0, s, 0, 0, <<>>, <<>>) :
        tag \in {"sparkStageSubmitted", "sparkStageCompleted", "sparkTaskStart",
                 "sparkTaskEnd"},
        s \in StageIds}

ApplicationData ==
    {Payload("sparkApplicationStart", 0, 0, 0, 0, id, attempt) :
        id \in AppIds, attempt \in AttemptIds}
    \cup {Payload("sparkApplicationEnd", 0, 0, 0, 0, <<>>, <<>>)}

ExecutorData ==
    {Payload(tag, 0, 0, c, 0, <<>>, <<>>) :
        tag \in {"sparkExecutorAdded", "sparkExecutorRemoved"}, c \in CoreCounts}

UnknownData == {Payload("sparkOther", 0, 0, 0, 0, <<>>, <<>>)}

EventData ==
    JobStartData \cup JobEndData \cup StageData \cup ApplicationData
        \cup ExecutorData \cup UnknownData

\* msg.content.data of a comm message: the envelope tag and the parsed msg.
Messages ==
    {[msgtype |-> "fromscala", data |-> d] : d \in EventData}
        \cup {[msgtype |-> t, data |-> Payload("", 0, 0, 0, 0, <<>>, <<>>)] :
                t \in {"", "fromkernel"}}

\* ------------------------------------------------------------ transitions
Init ==
    /\ cellId = InitialCellId
    /\ queue = <<>>
    /\ activeCell = null
    /\ numCellsExecuted = 0
    /\ cellReexecuted = FALSE
    /\ cellmonitors = <<>>
    /\ heap = <<>>
    /\ data = <<>>
    /\ appId = <<"N", "U", "L", "L">>
    /\ appName = "NULL"
    /\ appAttemptId = <<>>
    /\ app = <<"N", "U", "L", "L">>
    /\ totalCores = 0
    /\ numExecutors = 0
    /\ display_mode = "shown"
    /\ cellExecCountSinceSparkJobStart = 0
    /\ comm = null
    /\ commsOpen = {}
    /\ readyWaits = 1                       \* the constructor called startComm
    /\ recordApp = <<>>
    /\ jobStartMonitor = <<>>
    /\ leftover = undefined
    /\ undisturbed = TRUE

\* The monitor a handler forwarded its event to, if it forwarded it.
Receiver(w, op) ==
    IF w.calls # <<>> /\ w.calls[Len(w.calls)].op = op
    THEN w.calls[Len(w.calls)].mon
    ELSE undefined

\* The state a handler leaves, within the bounds of the model.  An uncaught
\* exception ends the handler where it is; the state it leaves is kept.
Commit(w) ==
    /\ Len(w.heap) <= MaxMonitors
    /\ Cardinality(DOMAIN w.data) <= MaxRecords
    /\ w.numExecutors \in -MaxExecutors..MaxExecutors
    /\ cellId' = w.cellId
    /\ cellmonitors' = w.cellmonitors
    /\ heap' = w.heap
    /\ data' = w.data
    /\ appId' = w.appId
    /\ appName' = w.appName
    /\ appAttemptId' = w.appAttemptId
    /\ app' = w.app
    /\ totalCores' = w.totalCores
    /\ numExecutors' = w.numExecutors
    /\ display_mode' = w.display_mode
    /\ cellExecCountSinceSparkJobStart' = w.cellExecCountSinceSparkJobStart
    /\ recordApp' = [key \in DOMAIN w.data |->
                        IF key \in DOMAIN recordApp THEN recordApp[key] ELSE w.app]
    /\ UNCHANGED <<listenerVars, channelVars>>

\* What the history keeps of an event handler that was entered with `d`.
Recorded(w, d) ==
    IF d.msgtype = "sparkJobStart" /\ ~w.thrown
    THEN /\ jobStartMonitor' = Put(jobStartMonitor, JobKey(w.app, d.jobId),
                                   Receiver(w, "onSparkJobStart"))
         /\ leftover' = undefined
    ELSE UNCHANGED <<jobStartMonitor, leftover>>

\* comm.onMsg: a message from the kernel extension.
HandleMessageIn(M) ==
    \E msg \in M :
        \E w \in {handleMessage(World, msg)} :
            /\ Commit(w)
            /\ IF display_mode = "shown" /\ msg.msgtype = "fromscala"
               THEN Recorded(w, msg.data)
               ELSE UNCHANGED <<jobStartMonitor, leftover>>
            /\ UNCHANGED undisturbed

\* A handler called as a method of the monitor, past handleMessage.
CallHandlerIn(D) ==
    \E d \in D :
        \E w \in {Dispatch(World, d)} :
            /\ Commit(w)
            /\ Recorded(w, d)
            /\ UNCHANGED undisturbed

\* The events that correlate jobs and stages with cells.
CellEventData == JobStartData \cup JobEndData \cup StageData \cup UnknownData

CellMessages == {msg \in Messages : msg.data \notin ApplicationData \cup ExecutorData}

HandleMessage == HandleMessageIn(CellMessages)

CallHandler == CallHandlerIn(CellEventData \ UnknownData)

\* A step that is none of the events a job's two ends are claimed to survive.
Disturbance(w) ==
    /\ Commit(w)
    /\ undisturbed' = FALSE
    /\ UNCHANGED <<jobStartMonitor, leftover>>

CellRemoved ==
    \E c \in Cells : \E w \in {onCellRemoved(World, cellId[c])} : Disturbance(w)

StopCellMonitor ==
    \E c \in Cells : \E w \in {stopCellMonitor(World, cellId[c])} : Disturbance(w)

\* startCellMonitor(cell) called as a method: it tests no display_mode.
StartCellMonitor ==
    \E c \in Cells : \E w \in {startCellMonitor(World, cellId[c])} : Disturbance(w)

ToggleAll == \E w \in {toggleAll(World)} : Disturbance(w)

ShowAll == \E w \in {showAll(World)} : Disturbance(w)

HideAll == \E w \in {hideAll(World)} : Disturbance(w)

\* ------------------------------------------------------------- CurrentCell
\* A cell is sent for execution: the execution count grows.
ExecutionScheduled ==
    \E c \in Cells :
        /\ numCellsExecuted < MaxExec
        /\ Len(queue) < MaxQueue
        /\ numCellsExecuted' = numCellsExecuted + 1
        /\ queue' = Append(queue, c)
        /\ UNCHANGED <<activeCell, cellReexecuted, engineVars, channelVars,
                       historyVars, recordApp>>

\* The kernel starts on the next scheduled cell.
ExecutionStarted ==
    /\ queue # <<>>
    /\ activeCell' = Head(queue)
    /\ queue' = Tail(queue)
    /\ cellReexecuted' = (Head(queue) = activeCell)
    /\ leftover' = getCellMonitor(World, cellId[Head(queue)])
    /\ UNCHANGED <<numCellsExecuted, engineVars, channelVars, jobStartMonitor,
                   undisturbed, recordApp>>

\* The running cell finishes with nothing behind it.
ExecutionFinished ==
    /\ activeCell # null
    /\ queue = <<>>
    /\ activeCell' = null
    /\ leftover' = undefined
    /\ UNCHANGED <<queue, numCellsExecuted, cellReexecuted, engineVars,
                   channelVars, jobStartMonitor, undisturbed, recordApp>>

Next ==
    \/ HandleMessage
    \/ CallHandler
    \/ CellRemoved
    \/ StopCellMonitor
    \/ ToggleAll
    \/ ShowAll
    \/ HideAll
    \/ ExecutionScheduled
    \/ ExecutionStarted
    \/ ExecutionFinished

Spec == Init /\ [][Next]_vars

\* ---------------------------------------------- the session and its channel
\* The engine together with what the constructor's listeners and startComm
\* read and write besides it.
Session ==
    [engine |-> World, cellReexecuted |-> cellReexecuted, comm |-> comm,
     commsOpen |-> commsOpen, readyWaits |-> readyWaits]

\* startComm(kernel): all it does at once is wait for listener.ready().
startComm(s) == [s EXCEPT !.readyWaits = @ + 1]

\* The callback of startComm once listener.ready() resolves: a comm is
\* created and opened, its onMsg is bound to handleMessage, and this.comm is
\* overwritten with it.  Nothing is done to the comm this.comm held.
commReady(s) ==
    [s EXCEPT !.readyWaits = @ - 1,
              !.comm = Cardinality(s.commsOpen) + 1,
              !.commsOpen = @ \cup {Cardinality(s.commsOpen) + 1}]

Statuses == {"starting", "idle", "busy"}

\* The listener starting over with empty records when the kernel restarts.
StatusChangedClearingRecords(s, status) ==
    IF status = "starting"
    THEN startComm([s EXCEPT !.cellReexecuted = FALSE, !.engine.data = <<>>])
    ELSE s

\* The kernel.statusChanged listener of the constructor.
onStatusChanged(s, status) ==
    IF status = "starting"
    THEN startComm([s EXCEPT !.cellReexecuted = FALSE])
    ELSE s

\* A step of the session that is not a step of a handler of the engine.
CommitSession(s) ==
    /\ s.readyWaits + Cardinality(s.commsOpen) <= MaxComms
    /\ cellReexecuted' = s.cellReexecuted
    /\ comm' = s.comm
    /\ commsOpen' = s.commsOpen
    /\ readyWaits' = s.readyWaits
    /\ UNCHANGED <<queue, activeCell, numCellsExecuted, engineVars, historyVars,
                   recordApp>>

KernelStatusChanged ==
    \E status \in Statuses :
        \E s \in {onStatusChanged(Session, status)} : CommitSession(s)

CommEstablished ==
    /\ readyWaits > 0
    /\ \E s \in {commReady(Session)} : CommitSession(s)

\* The events of the session and of jobs; stages are left to Spec.
SessionData ==
    ExecutorData \cup JobStartData \cup JobEndData \cup UnknownData
        \cup {d \in ApplicationData : d.msgtype = "sparkApplicationEnd"}

SessionMessages == {msg \in Messages : msg.data \notin EventData \ SessionData}

\* comm.onMsg of an open comm.
Delivered ==
    \E c \in commsOpen :
        \E msg \in SessionMessages :
            \E w \in {handleMessage(World, msg)} :
                /\ Commit(w)
                /\ UNCHANGED historyVars

\* toggleAll() from the host.
Toggled ==
    \E w \in {toggleAll(World)} :
        /\ Commit(w)
        /\ UNCHANGED historyVars

SessionNext ==
    \/ Delivered
    \/ Toggled
    \/ ExecutionScheduled
    \/ ExecutionStarted
    \/ ExecutionFinished
    \/ KernelStatusChanged
    \/ CommEstablished

SessionSpec == Init /\ [][SessionNext]_vars

\* ------------------------------------------------------- app instances
\* Application starts with a job and a stage recorded under them.
InstanceData ==
    ApplicationData \cup StageData
        \cup {d \in JobStartData \cup JobEndData : d.jobId = 0}

InstanceReceived ==
    \E d \in InstanceData :
        \E w \in {handleMessage(World, [msgtype |-> "fromscala", data |-> d])} :
            /\ Commit(w)
            /\ UNCHANGED historyVars

InstanceNext ==
    \/ InstanceReceived
    \/ ExecutionScheduled
    \/ ExecutionStarted
    \/ ExecutionFinished

InstanceSpec == Init /\ [][InstanceNext]_vars

\* --------------------------------------------------- the monitor lifecycle
\* The methods that register and retire monitors, with startCellMonitor
\* called from outside as well as by onSparkJobStart, and the two ends of
\* job 0.
LifecycleData == {d \in JobStartData \cup JobEndData : d.jobId = 0}

LifecycleReceived ==
    HandleMessageIn({[msgtype |-> "fromscala", data |-> d] : d \in LifecycleData})

LifecycleCalled == CallHandlerIn(LifecycleData)

LifecycleNext ==
    \/ LifecycleReceived
    \/ LifecycleCalled
    \/ StartCellMonitor
    \/ StopCellMonitor
    \/ CellRemoved
    \/ ToggleAll
    \/ ExecutionScheduled
    \/ ExecutionStarted
    \/ ExecutionFinished

LifecycleSpec == Init /\ [][LifecycleNext]_vars

\* ------------------------------------------------------------------ claims
\* A handler is a function of the state it is entered in and of its input;
\* the claims about what a handler does are stated of its result, in every
\* reachable state and for every input.

\* The values of engineVars a handler leaves.
EngineOf(w) ==
    <<w.cellId, w.cellmonitors, w.heap, w.data, w.appId, w.appName,
      w.appAttemptId, w.app, w.totalCores, w.numExecutors, w.display_mode,
      w.cellExecCountSinceSparkJobStart>>

JobEndCall(m) == [op |-> "onSparkJobEnd", mon |-> m]

\* The job of `d` was started under the present app instance and a monitor
\* received that job start.
MonitoredJob(d) ==
    /\ JobKey(app, d.jobId) \in DOMAIN jobStartMonitor
    /\ jobStartMonitor[JobKey(app, d.jobId)] # undefined

StartMonitor(d) == jobStartMonitor[JobKey(app, d.jobId)]

\* C1 as stated: with nothing but executions and job, stage and task events
\* since construction (shown mode throughout), the job end of a job reaches
\* the very monitor object that received its job start.
C1_SameMonitorObject ==
    \A d \in JobEndData :
        (undisturbed /\ MonitoredJob(d))
            => onSparkJobEnd(World, d).calls = <<JobEndCall(StartMonitor(d))>>

\* The cell the monitor of the job start of `d` was constructed for.
StartCell(d) == heap[StartMonitor(d)].cell

\* C1 amended: the record of the job names the cell whose monitor received
\* the job start; the job end is received by the monitor registered for that
\* cell when the job end is handled, once, and by no monitor when the cell
\* has none then; that monitor is the object of the job start whenever the
\* object is still registered, and no other monitor gets a call.
C1_SameMonitorWhileRegistered ==
    \A d \in JobEndData :
        MonitoredJob(d) =>
            LET r == onSparkJobEnd(World, d)
                current == getCellMonitor(World, StartCell(d))
            IN  /\ ~r.thrown
                /\ data[JobKey(app, d.jobId)].cell_id = StartCell(d)
                /\ r.calls = IF current # undefined
                             THEN <<JobEndCall(current)>>
                             ELSE <<>>
                /\ StartMonitor(d) \in Live(cellmonitors)
                      => current = StartMonitor(d)
                /\ EngineOf(r) = EngineOf(World)

\* Two jobs started by two executions of one cell: the monitor of the first
\* job start has been replaced by the second, which is registered, and the
\* job end of either job goes to the second.
C1_Witness ==
    /\ numCellsExecuted >= 2
    /\ \E d, e \in JobEndData :
           /\ MonitoredJob(d)
           /\ MonitoredJob(e)
           /\ StartMonitor(d) \in Live(cellmonitors)
           /\ StartMonitor(e) \notin Live(cellmonitors)
           /\ StartCell(e) = StartCell(d)
           /\ onSparkJobEnd(World, d).calls = <<JobEndCall(StartMonitor(d))>>
           /\ onSparkJobEnd(World, e).calls = <<JobEndCall(StartMonitor(d))>>

\* An execution of a cell is running in shown mode, the cell had a monitor
\* when the execution began, and no job start of the execution was handled.
RerunAwaitingFirstJob ==
    /\ display_mode = "shown"
    /\ activeCell # null
    /\ leftover # undefined

\* C2 as stated: in shown mode the first job start of an execution of a cell
\* that had a monitor when the execution began is forwarded to a monitor
\* constructed by that job start, never to the one left over.
C2_RerunGetsCleanMonitor ==
    RerunAwaitingFirstJob =>
        \A d \in JobStartData :
            LET r == onSparkJobStart(World, d)
            IN  /\ Receiver(r, "onSparkJobStart") = Len(heap) + 1
                /\ [op |-> "new", mon |-> Len(heap) + 1] \in Range(r.calls)
                /\ Receiver(r, "onSparkJobStart") # leftover

\* The monitor registered for the active cell.
ActiveMonitor ==
    IF activeCell = null THEN undefined
    ELSE getCellMonitor(World, cellId[activeCell])

\* The display of a monitor is up only while the monitor is registered, and
\* no two monitors of one cell id have their display up together.
OneLiveMonitorPerCell ==
    \A m \in DOMAIN heap :
        heap[m].displayVisible =>
            /\ m \in Live(cellmonitors)
            /\ \A n \in DOMAIN heap :
                   (heap[n].displayVisible /\ heap[n].cell = heap[m].cell) => n = m

\* No handler forwards an event to a monitor that is not registered when the
\* handler ends.
NoEventToRetired ==
    \A d \in EventData :
        LET r == Dispatch(World, d)
        IN  \A i \in DOMAIN r.calls :
                r.calls[i].op \in Events => r.calls[i].mon \in Live(r.cellmonitors)

\* C3: a job start of a new run in shown mode whose cell has a monitor tears
\* the display of that monitor down once, constructs one monitor after it,
\* registers it in place of the old one and forwards to it; at any time at
\* most one monitor per cell id is live, and no event goes to a monitor that
\* has been replaced.  A cell has a monitor when one is registered under its
\* id; a cell whose id is '' gets a fresh id from the job start before the
\* lookup, and nothing is registered under a fresh id.
C3_ReplaceOnRerun ==
    /\ (/\ display_mode = "shown"
        /\ ActiveMonitor # undefined
        /\ cellId[activeCell] # ""
        /\ numCellsExecuted > cellExecCountSinceSparkJobStart)
       => \A d \in JobStartData :
              LET r == onSparkJobStart(World, d)
              IN  /\ r.calls = <<[op |-> "removeDisplay", mon |-> ActiveMonitor],
                                 [op |-> "new", mon |-> Len(heap) + 1],
                                 [op |-> "onSparkJobStart", mon |-> Len(heap) + 1]>>
                  /\ Len(r.heap) = Len(heap) + 1
                  /\ ~r.heap[ActiveMonitor].displayVisible
                  /\ Keys(r.cellmonitors) = Keys(cellmonitors)
                  /\ Live(r.cellmonitors) =
                         (Live(cellmonitors) \ {ActiveMonitor}) \cup {Len(heap) + 1}
    /\ OneLiveMonitorPerCell
    /\ NoEventToRetired

\* With no monitor retired by hand, a cell has had its monitor replaced: the
\* old one is out and its display is down, the new one is in.
C3_Witness ==
    /\ undisturbed
    /\ \E m, n \in DOMAIN heap :
           /\ m < n
           /\ heap[m].cell = heap[n].cell
           /\ m \notin Live(cellmonitors)
           /\ ~heap[m].displayVisible
           /\ n \in Live(cellmonitors)
           /\ heap[n].displayVisible

ResolvingData ==
    JobEndData \cup {d \in StageData : d.msgtype # "sparkStageSubmitted"}

\* The key a resolving handler looks its cell up under.
LookupKey(d) ==
    IF d.msgtype = "sparkJobEnd" THEN JobKey(app, d.jobId)
    ELSE StageKey(app, d.stageId)

\* C4 as stated: a job end, stage completed, task start or task end whose
\* id has no record under the app instance logs an error, throws nothing and
\* leaves the engine as it is.
C4_UnknownIdReported ==
    \A d \in ResolvingData :
        LookupKey(d) \notin DOMAIN data
            => LET r == Dispatch(World, d)
               IN  /\ ~r.thrown
                   /\ "error" \in Range(r.log)
                   /\ EngineOf(r) = EngineOf(World)

\* C5 as stated: a job start or stage submitted with no active cell logs an
\* error, throws nothing and leaves the engine as it is.
C5_NoActiveCellReported ==
    activeCell = null
        => \A d \in JobStartData \cup {s \in StageData :
                                          s.msgtype = "sparkStageSubmitted"} :
               LET r == Dispatch(World, d)
               IN  /\ ~r.thrown
                   /\ "error" \in Range(r.log)
                   /\ EngineOf(r) = EngineOf(World)

\* The cell id a record holds under `key`, "" when there is no record.
RecordedCell(key) == IF key \in DOMAIN data THEN data[key].cell_id ELSE ""

CellIds == Range(InitialCellId) \cup Range(UUIDS)

\* What each operation other than a job start makes of the present state.
OtherResults ==
    {Dispatch(World, d) : d \in EventData \ JobStartData}
        \cup {handleMessage(World, msg) :
                 msg \in {x \in Messages : x.data \notin JobStartData}}
        \cup {onCellRemoved(World, id) : id \in CellIds}
        \cup {stopCellMonitor(World, id) : id \in CellIds}
        \cup {hideAll(World), showAll(World), toggleAll(World)}

\* What a job start, called or delivered as a message, makes of it.
JobStartResults ==
    {Dispatch(World, d) : d \in JobStartData}
        \cup {handleMessage(World, [msgtype |-> "fromscala", data |-> d]) :
                 d \in JobStartData}

\* What startCellMonitor called as a method makes of it.
CreateResults == {startCellMonitor(World, id) : id \in CellIds}

\* C6 as stated: no step taken in hidden mode adds a key to cellmonitors or
\* constructs a monitor, and in hidden mode neither handleMessage nor
\* onSparkJobStart called as a method does, whatever the job start.
C6_HiddenCreatesNoMonitor ==
    [][display_mode = "hidden"
          => /\ Keys(cellmonitors') \subseteq Keys(cellmonitors)
             /\ Len(heap') = Len(heap)
             /\ \A d \in JobStartData :
                    /\ ~[op |-> "new", mon |-> Len(heap) + 1]
                            \in Range(onSparkJobStart(World, d).calls)
                    /\ handleMessage(World, [msgtype |-> "fromscala", data |-> d]).heap
                           = heap]_vars

\* C6 amended: in hidden mode no job start, delivered through handleMessage
\* or handled by onSparkJobStart called as a method, adds a key to
\* cellmonitors or constructs a monitor, and neither does any other operation
\* but startCellMonitor called as a method, which constructs and registers
\* one monitor and leaves the mode hidden.
C6_HiddenJobStartCreatesNoMonitor ==
    display_mode = "hidden"
        => /\ \A r \in JobStartResults \cup OtherResults :
                  /\ Keys(r.cellmonitors) \subseteq Keys(cellmonitors)
                  /\ Len(r.heap) = Len(heap)
                  /\ \A i \in DOMAIN r.calls : r.calls[i].op # "new"
           /\ \A id \in CellIds :
                  LET r == startCellMonitor(World, id)
                  IN  /\ Len(r.heap) = Len(heap) + 1
                      /\ getCellMonitor(r, id) = Len(heap) + 1
                      /\ Keys(r.cellmonitors) = Keys(cellmonitors) \cup {id}
                      /\ r.display_mode = "hidden"

\* Hidden mode, and a job start of a new run has been handled for a cell
\* that has no monitor: it left its record and the watermark, and no monitor.
C6_Witness ==
    /\ display_mode = "hidden"
    /\ numCellsExecuted > 0
    /\ cellExecCountSinceSparkJobStart = numCellsExecuted
    /\ \E key \in DOMAIN jobStartMonitor :
           /\ jobStartMonitor[key] = undefined
           /\ data[key].cell_id \notin Keys(cellmonitors)

\* C7: in hidden mode handleMessage returns the engine as it found it, with
\* no call on a monitor, no log line and no exception, whatever the message.
C7_HiddenIgnoresMessage ==
    display_mode = "hidden"
        => \A msg \in Messages : handleMessage(World, msg) = World

\* Hidden mode with a cell running whose job start would be that of a new
\* run, and a message that is not ignored once the mode is shown.
C7_Witness ==
    /\ display_mode = "hidden"
    /\ activeCell # null
    /\ numCellsExecuted > cellExecCountSinceSparkJobStart
    /\ cellmonitors # <<>>
    /\ \E msg \in Messages : handleMessage(showAll(World), msg) # showAll(World)

\* After the removal hook or stopCellMonitor ran for a cell id, the id has no
\* monitor; no operation of `Others` gives an id a monitor, and a job start
\* gives one to the active cell only; a monitor once out of cellmonitors
\* never returns and gets no event; and a job end, stage completed, task
\* start or task end whose record names a cell without monitor, whichever
\* the cell, does nothing: no call, no log line, no exception.
EvictedAbsent(Others) ==
    /\ \A id \in CellIds :
           /\ getCellMonitor(onCellRemoved(World, id), id) = undefined
           /\ getCellMonitor(stopCellMonitor(World, id), id) = undefined
    /\ \A r \in Others : Keys(r.cellmonitors) \subseteq Keys(cellmonitors)
    /\ \A r \in JobStartResults :
           ~(Keys(r.cellmonitors) \subseteq Keys(cellmonitors))
               => /\ activeCell # null
                  /\ Keys(r.cellmonitors) \ Keys(cellmonitors)
                         = {r.cellId[activeCell]}
    /\ \A r \in OtherResults \cup JobStartResults \cup CreateResults :
           \A m \in DOMAIN heap :
               m \notin Live(cellmonitors) => m \notin Live(r.cellmonitors)
    /\ NoEventToRetired
    /\ \A d \in ResolvingData :
           \A id \in CellIds \ ({""} \cup Keys(cellmonitors)) :
               LET w == [World EXCEPT
                            !.data = Put(@, LookupKey(d), [cell_id |-> id])]
               IN  Dispatch(w, d) = w

\* C8 as stated: an id whose monitor was evicted has no monitor until a job
\* start creates one; no other operation, startCellMonitor called as a
\* method included, gives an id a monitor.
C8_EvictedStaysAbsent == EvictedAbsent(OtherResults \cup CreateResults)

\* C8 amended: an id whose monitor was evicted has no monitor until a job
\* start of the active cell or startCellMonitor called for that id
\* constructs a new one; the evicted monitor never returns and gets no event,
\* and the events that resolve to the id are handled silently meanwhile.
C8_EvictedAbsentUntilCreated ==
    /\ EvictedAbsent(OtherResults)
    /\ \A id \in CellIds :
           LET r == startCellMonitor(World, id)
           IN  /\ Keys(r.cellmonitors) = Keys(cellmonitors) \cup {id}
               /\ getCellMonitor(r, id) = Len(heap) + 1
               /\ \A i \in DOMAIN r.calls :
                      r.calls[i].op \in {"new", "removeDisplay"}

\* The monitor that saw a job start has been evicted, its cell has no
\* monitor since, and the job end of that job does nothing.
C8_Witness ==
    /\ ~undisturbed
    /\ \E d \in JobEndData :
           /\ MonitoredJob(d)
           /\ StartMonitor(d) \notin Live(cellmonitors)
           /\ RecordedCell(LookupKey(d)) \notin Keys(cellmonitors)
           /\ Dispatch(World, d) = World

\* C9 as stated: the cell id of a record never changes once it is set.
C9_RecordImmutable ==
    [][\A key \in DOMAIN data :
           key \in DOMAIN data' /\ data'[key] = data[key]]_vars

\* The key a job start or stage submitted writes its record under.
WrittenKey(d) ==
    IF d.msgtype = "sparkJobStart" THEN JobKey(app, d.jobId)
    ELSE StageKey(app, d.stageId)

\* C9 amended: no record is ever removed, and the cell id of a record
\* changes only when a job start or stage submitted with the same id under
\* the same app instance writes the id of the cell then active over it.
C9_RecordChangedByRestartOnly ==
    [][\A key \in DOMAIN data :
           /\ key \in DOMAIN data'
           /\ data'[key] # data[key]
                 => /\ activeCell # null
                    /\ data'[key].cell_id = cellId'[activeCell]
                    /\ \E d \in JobStartData \cup
                                {s \in StageData : s.msgtype = "sparkStageSubmitted"} :
                           /\ key = WrittenKey(d)
                           /\ engineVars' = EngineOf(Dispatch(World, d))]_vars

\* A record of the running cell was written while another cell was running,
\* and the job start or stage submitted that writes it again is at hand.
C9_Witness ==
    /\ activeCell # null
    /\ \E d \in JobStartData \cup
                {s \in StageData : s.msgtype = "sparkStageSubmitted"} :
           /\ WrittenKey(d) \in DOMAIN data
           /\ data[WrittenKey(d)].cell_id \notin {"", cellId[activeCell]}
           /\ Dispatch(World, d).data[WrittenKey(d)].cell_id = cellId[activeCell]

\* C10: in every state and for every id, stopCellMonitor run twice leaves
\* the monitors, their displays and the calls made (the teardowns) as
\* stopCellMonitor run once does, and for an id without monitor it leaves
\* everything as it is.
C10_StopIdempotent ==
    \A id \in CellIds :
        LET once == stopCellMonitor(World, id)
        IN  /\ stopCellMonitor(once, id) = once
            /\ getCellMonitor(once, id) = undefined
            /\ getCellMonitor(World, id) = undefined => once = World
            /\ getCellMonitor(World, id) # undefined
                   => once.calls = <<[op |-> "removeDisplay",
                                      mon |-> getCellMonitor(World, id)]>>

\* One cell has a monitor, and the monitor of another has been retired, so
\* that stopCellMonitor meets an id that is present and one that is absent.
C10_Witness ==
    /\ ~undisturbed
    /\ cellmonitors # <<>>
    /\ \E m \in DOMAIN heap :
           /\ heap[m].cell \notin Keys(cellmonitors)
           /\ stopCellMonitor(World, heap[m].cell) = World

\* The envelope a payload of the backend arrives in.
FromScala(d) == [msgtype |-> "fromscala", data |-> d]

\* `s` is `w` but for the visibility mode, which is shown.
OnlyModeShown(s, w) ==
    /\ s.display_mode = "shown"
    /\ \A field \in DOMAIN w \ {"display_mode"} : s[field] = w[field]

\* C11 as stated: after hideAll a job start, delivered or called, creates no
\* monitor; showAll after it changes the mode only; and the job start
\* delivered next, with a cell active, constructs a monitor for that cell.
C11_ScenarioC ==
    \A d1, d2 \in JobStartData :
        LET h == hideAll(World)
        IN  \A j1 \in {handleMessage(h, FromScala(d1)), onSparkJobStart(h, d1)} :
                LET s == showAll(j1)
                    j2 == handleMessage(s, FromScala(d2))
                IN  /\ Len(j1.heap) = Len(h.heap)
                    /\ j1.cellmonitors = h.cellmonitors
                    /\ OnlyModeShown(s, j1)
                    /\ activeCell # null
                          => /\ Len(j2.heap) = Len(s.heap) + 1
                             /\ getCellMonitor(j2, j2.cellId[activeCell])
                                    = Len(j2.heap)

\* C11 amended: as stated, but the job start after showAll constructs a
\* monitor only when the cell has none or the execution count has grown
\* since the last job start handled; otherwise the monitor the cell kept
\* through hideAll receives the job start.  Either way the cell has a
\* monitor afterwards and that monitor received the job start.
C11_ScenarioCKeptMonitor ==
    \A d1, d2 \in JobStartData :
        LET h == hideAll(World)
        IN  \A j1 \in {handleMessage(h, FromScala(d1)), onSparkJobStart(h, d1)} :
                LET s == showAll(j1)
                    j2 == handleMessage(s, FromScala(d2))
                IN  /\ Len(j1.heap) = Len(h.heap)
                    /\ j1.cellmonitors = h.cellmonitors
                    /\ OnlyModeShown(s, j1)
                    /\ activeCell # null
                          => LET id == j2.cellId[activeCell]
                                 kept == getCellMonitor(s, s.cellId[activeCell])
                                 fresh ==
                                     \/ kept = undefined
                                     \/ numCellsExecuted
                                            > s.cellExecCountSinceSparkJobStart
                             IN  /\ ~j2.thrown
                                 /\ getCellMonitor(j2, id) # undefined
                                 /\ Receiver(j2, "onSparkJobStart")
                                        = getCellMonitor(j2, id)
                                 /\ fresh => /\ Len(j2.heap) = Len(s.heap) + 1
                                             /\ getCellMonitor(j2, id) = Len(j2.heap)
                                 /\ ~fresh => /\ j2.heap = [s.heap EXCEPT
                                                    ![kept].displayVisible = TRUE]
                                              /\ getCellMonitor(j2, id) = kept

\* Shown again after hideAll: the active cell kept its monitor, whose
\* display hideAll tore down, and the job start at hand is not of a new run.
C11_Witness ==
    /\ display_mode = "shown"
    /\ activeCell # null
    /\ ActiveMonitor # undefined
    /\ ~heap[ActiveMonitor].displayVisible
    /\ numCellsExecuted = cellExecCountSinceSparkJobStart

\* The registered monitors whose display is up.
Visible == {m \in Live(cellmonitors) : heap[m].displayVisible}

\* C12: hideAll sets the mode to hidden, calls removeDisplay once on each
\* registered monitor whose display is up and on no other, and leaves the
\* registered monitors, the records, the session fields and the watermark as
\* they are; toggleAll is hideAll in shown mode and showAll in hidden mode,
\* and the mode is one of the two.
C12_HideAllFrame ==
    LET r == hideAll(World)
    IN  /\ r.display_mode = "hidden"
        /\ Range(r.calls) = {[op |-> "removeDisplay", mon |-> m] : m \in Visible}
        /\ Len(r.calls) = Cardinality(Visible)
        /\ r.heap = [m \in DOMAIN heap |->
                         IF m \in Visible
                         THEN [heap[m] EXCEPT !.displayVisible = FALSE]
                         ELSE heap[m]]
        /\ \A field \in DOMAIN World \ {"display_mode", "heap", "calls"} :
               r[field] = World[field]
        /\ display_mode \in {"shown", "hidden"}
        /\ toggleAll(World) = IF display_mode = "shown" THEN hideAll(World)
                              ELSE showAll(World)
        /\ toggleAll(World).display_mode \in {"shown", "hidden"} \ {display_mode}

\* Shown mode with two cells monitored, the display of one up and that of
\* the other torn down by an earlier hideAll.
C12_Witness ==
    /\ display_mode = "shown"
    /\ \E m, n \in Live(cellmonitors) :
           /\ heap[m].displayVisible
           /\ ~heap[n].displayVisible
           /\ hideAll(World).calls = <<[op |-> "removeDisplay", mon |-> m]>>

\* C13: an executor added or removed sets totalCores to that of the event
\* and moves numExecutors by one, up or down, whether no cell is active, the
\* active cell has no monitor or it has one; it is forwarded to the monitor
\* of the active cell and to no other, throws nothing and changes nothing
\* else; in shown mode handleMessage does the same.
C13_ExecutorEvents ==
    \A d \in ExecutorData :
        LET r == Dispatch(World, d)
            added == d.msgtype = "sparkExecutorAdded"
            op == IF added THEN "onSparkExecutorAdded" ELSE "onSparkExecutorRemoved"
        IN  /\ ~r.thrown
            /\ r.totalCores = d.totalCores
            /\ r.numExecutors = numExecutors + (IF added THEN 1 ELSE -1)
            /\ r.calls = IF ActiveMonitor # undefined
                         THEN <<[op |-> op, mon |-> ActiveMonitor]>>
                         ELSE <<>>
            /\ \A field \in DOMAIN World \ {"totalCores", "numExecutors", "calls"} :
                   r[field] = World[field]
            /\ display_mode = "shown" => handleMessage(World, FromScala(d)) = r

\* Executor events have been handled (the count is back at 0 with cores
\* known), and the active cell has a monitor for the next one to go to.
C13_Witness ==
    /\ totalCores # 0
    /\ numExecutors = 0
    /\ activeCell # null
    /\ ActiveMonitor # undefined
    /\ display_mode = "shown"

\* The method of a monitor that a stage or task event is forwarded to.
StageHandler(tag) ==
    CASE tag = "sparkStageCompleted" -> "onSparkStageCompleted"
      [] tag = "sparkTaskStart" -> "onSparkTaskStart"
      [] tag = "sparkTaskEnd" -> "onSparkTaskEnd"
      [] OTHER -> "onSparkStageSubmitted"

\* C14 as stated: a stage submitted records the id of the cell then active,
\* and a stage completed, task start or task end of that stage, coming right
\* after it or after a job start of the same cell, throws nothing and is
\* forwarded to the monitor of that cell if the cell has one.
C14_StageFollowsSubmitter ==
    activeCell # null =>
        \A s \in {x \in StageData : x.msgtype = "sparkStageSubmitted"} :
            \A e \in {x \in StageData : x.msgtype # "sparkStageSubmitted"
                                           /\ x.stageId = s.stageId} :
                LET r1 == onSparkStageSubmitted(World, s)
                IN  /\ r1.data[StageKey(app, s.stageId)].cell_id = cellId[activeCell]
                    /\ \A r2 \in {r1} \cup {handleMessage(r1, FromScala(j)) :
                                                j \in JobStartData} :
                           LET r3 == Dispatch(r2, e)
                               m == getCellMonitor(r2, r2.cellId[activeCell])
                           IN  /\ ~r3.thrown
                               /\ m # undefined
                                      => Receiver(r3, StageHandler(e.msgtype)) = m

AppStartData == {d \in ApplicationData : d.msgtype = "sparkApplicationStart"}

WritingData ==
    JobStartData \cup {d \in StageData : d.msgtype = "sparkStageSubmitted"}

\* C15: an application start sets this.app to appId_appAttemptId and leaves
\* the records and the monitors alone; a job start or stage submitted leaves
\* every record made under another app instance as it is and writes its own
\* under a key that is none of theirs; and a job end, stage completed, task
\* start or task end finds a record only if it was made under the present
\* app instance, and reaches no monitor otherwise.
C15_InstancesApart ==
    /\ \A d \in AppStartData :
           LET r == onSparkApplicationStart(World, d)
           IN  /\ r.app = d.appId \o <<"_">> \o d.appAttemptId
               /\ r.data = data
               /\ r.cellmonitors = cellmonitors
               /\ r.heap = heap
               /\ r.calls = <<>>
               /\ ~r.thrown
               /\ display_mode = "shown" => handleMessage(World, FromScala(d)) = r
    /\ \A key \in DOMAIN data :
           recordApp[key] # app
               => \A d \in WritingData :
                      LET r == Dispatch(World, d)
                      IN  /\ r.data[key] = data[key]
                          /\ activeCell # null
                                => /\ WrittenKey(d) # key
                                   /\ WrittenKey(d) \in DOMAIN r.data
                                   /\ r.data[WrittenKey(d)].cell_id
                                          = r.cellId[activeCell]
    /\ \A d \in ResolvingData :
           /\ LookupKey(d) \in DOMAIN data => recordApp[LookupKey(d)] = app
           /\ LookupKey(d) \notin DOMAIN data => Dispatch(World, d).calls = <<>>

\* Job 0 has a record under two app instances, for two different cells, and
\* the instance of the later one is the present one.
C15_Witness ==
    \E old, new \in DOMAIN data :
        /\ recordApp[old] # app
        /\ recordApp[new] = app
        /\ old = JobKey(recordApp[old], 0)
        /\ new = JobKey(app, 0)
        /\ data[old].cell_id # data[new].cell_id

\* The cell ids in use: of the cells, of the monitors, of the records.
IdsInUse ==
    Range(cellId) \cup Keys(cellmonitors) \cup {data[key].cell_id : key \in DOMAIN data}

\* C16 as stated: with a cell active, a job start, delivered as a message or
\* handled by onSparkJobStart, in shown and in hidden mode alike, gives the
\* cell a fresh id if it has none, records the cell id under the key of the
\* job and sets totalCores and numExecutors to those of the event; in hidden
\* mode it does so and then drops the event: no monitor is constructed and
\* none receives it.
C16_BookkeepingWhateverMode ==
    activeCell # null =>
        \A d \in JobStartData :
            \A r \in {onSparkJobStart(World, d), handleMessage(World, FromScala(d))} :
                /\ ~r.thrown
                /\ r.cellId[activeCell] # ""
                /\ cellId[activeCell] = "" => r.cellId[activeCell] \notin IdsInUse
                /\ cellId[activeCell] # "" => r.cellId = cellId
                /\ JobKey(app, d.jobId) \in DOMAIN r.data
                /\ r.data[JobKey(app, d.jobId)].cell_id = r.cellId[activeCell]
                /\ r.totalCores = d.totalCores
                /\ r.numExecutors = d.numExecutors
                /\ display_mode = "hidden" => r.calls = <<>>

\* C17: no operation takes a key out of this.data: not a job end, stage
\* completed or task event, not a job start or stage submitted, not the
\* retirement of a monitor or the removal hook, not hideAll, showAll or
\* toggleAll, not an application start; and a kernel status change leaves
\* the whole engine and the comms as they are, clearing the re-execution
\* flag and calling startComm when the status is 'starting' and doing
\* nothing otherwise; the comm opened after it leaves the engine alone too.
C17_RecordsOnlyGrow ==
    /\ \A r \in OtherResults \cup JobStartResults : DOMAIN data \subseteq DOMAIN r.data
    /\ \A status \in Statuses :
           LET s == onStatusChanged(Session, status)
           IN  /\ s.engine = World
               /\ s.comm = comm
               /\ s.commsOpen = commsOpen
               /\ IF status = "starting"
                  THEN ~s.cellReexecuted /\ s.readyWaits = readyWaits + 1
                  ELSE s = Session
    /\ commReady(Session).engine = World

\* Records and monitors exist, a comm is open, and the kernel has restarted:
\* the flag is clear and the reopening of the channel is pending.
C17_Witness ==
    /\ data # <<>>
    /\ cellmonitors # <<>>
    /\ commsOpen # {}
    /\ readyWaits > 0
    /\ ~cellReexecuted

\* C18 as stated: whatever the order of the constructor's startComm, the
\* 'starting' status changes and the resolutions of listener.ready(), at
\* most one comm is open with its onMsg bound to handleMessage, and it is
\* the one this.comm holds.
C18_OneChannelOpen ==
    /\ Cardinality(commsOpen) <= 1
    /\ commsOpen # {} => commsOpen = {comm}

\* C19: the watermark lies between 0 and the execution count; no operation
\* but a job start changes it, a kernel status change included; a job start
\* never lowers it nor takes it past the count; and onSparkJobStart entered
\* with a cell active leaves it equal to the count.  The count itself never
\* goes down, so neither does the watermark.
C19_Watermark ==
    /\ cellExecCountSinceSparkJobStart \in 0..numCellsExecuted
    /\ \A r \in OtherResults :
           r.cellExecCountSinceSparkJobStart = cellExecCountSinceSparkJobStart
    /\ \A status \in Statuses :
           onStatusChanged(Session, status).engine.cellExecCountSinceSparkJobStart
               = cellExecCountSinceSparkJobStart
    /\ \A r \in JobStartResults :
           r.cellExecCountSinceSparkJobStart
               \in cellExecCountSinceSparkJobStart..numCellsExecuted
    /\ activeCell # null
          => \A d \in JobStartData :
                 onSparkJobStart(World, d).cellExecCountSinceSparkJobStart
                     = numCellsExecuted

\* A job start has moved the watermark, the count has grown since, and a
\* cell is active for the job start that will move it again.
C19_Witness ==
    /\ cellExecCountSinceSparkJobStart > 0
    /\ numCellsExecuted > cellExecCountSinceSparkJobStart
    /\ activeCell # null
    /\ display_mode = "shown"

\* C20 as stated: numExecutors is never negative, whatever job starts,
\* executors added and executors removed have been handled or missed.
C20_NumExecutorsNonNegative == numExecutors >= 0

====
